---- MODULE Spec2Model ----
(***************************************************************************)
(* A model of the cbin encoder: the Serializer (src/src/serializer.rs),    *)
(* which deduplicates moves per block and writes length-prefixed blocks,   *)
(* the Converter (src/src/converter.rs), which is driven by the PGN        *)
(* reader's visitor callbacks and feeds the Serializer, the conversions    *)
(* of src/src/utils.rs in both directions, and the command-line encoder    *)
(* GameWriter (src/src/main.rs).                                           *)
(***************************************************************************)
EXTENDS Integers, Sequences, FiniteSets, TLC

VARIABLES
    writer,               \* Serializer.writer: what the sink has received, in order
    builder,              \* Serializer.builder: the planus arena of the current block
    move_map,             \* Serializer.move_map: Move -> Offset<Move>
    games_list,           \* Serializer.games_list: Vec<Offset<Game>>
    max_games_per_block,  \* Serializer.max_games_per_block
    current_moves,        \* ConverterVisitor.current_moves
    game_count,           \* Converter.game_count
    pc,                   \* who owns the Serializer and where the reader stands
    last_call,            \* the last call made, its argument and what it returned
    issued,               \* history: per Move, the add_move calls of this block and what they returned
    added,                \* history: the games add_game accepted, in call order
    block_moves,          \* history: per block written, the add_move calls made while it was active
    stats,                \* history: counters of calls and of failed writes
    game_refs,            \* history: what add_move returned to the san events of the game being read
    gw,                   \* the GameWriter of main.rs and where its reader stands
    codec                 \* a notation value and what the conversions of utils.rs made of it

vars == <<writer, builder, move_map, games_list, max_games_per_block,
          current_moves, game_count, pc, last_call, issued, added,
          block_moves, stats, game_refs, gw, codec>>

(***************************************************************************)
(* Bounds of the model.                                                    *)
(***************************************************************************)
MaxCalls == 5
MaxFailures == 1
MaxEvents == 7

MAX_GAMES_PER_BLOCK == 500000

\* the thresholds set_max_games_per_block is called with
Thresholds == {0, 1, 2}

(***************************************************************************)
(* usize lengths.  TLC's integers are 32 bits wide, so a usize is kept as  *)
(* two limbs, value = hi * 2^16 + lo; `as u32` keeps the low 32 bits.      *)
(***************************************************************************)
Limb == 256 * 256

U(n) == [hi |-> n \div Limb, lo |-> n % Limb]

Plus(a, b) ==
    LET s == a.lo + b.lo
    IN  [hi |-> a.hi + b.hi + (s \div Limb), lo |-> s % Limb]

AsU32(a) == [hi |-> a.hi % Limb, lo |-> a.lo]

to_le_bytes(u) ==
    <<u.lo % 256, u.lo \div 256, u.hi % 256, (u.hi \div 256) % 256>>

\* what a reader of the stream makes of four little-endian bytes
from_le_bytes(b) ==
    [hi |-> b[3] + 256 * b[4], lo |-> b[1] + 256 * b[2]]

(***************************************************************************)
(* Schema values and the conversions of utils.rs.  shakmaty's values are   *)
(* its discriminants (Role 1..6, File and Rank 0..7, Square 0..63); the    *)
(* schema's values are their names.  Option<T> is <<>> or <<x>>.           *)
(***************************************************************************)
None == <<>>

Some(x) == <<x>>

role_to_piece(role) ==
    CASE role = 6 -> "King"
      [] role = 5 -> "Queen"
      [] role = 4 -> "Rook"
      [] role = 3 -> "Bishop"
      [] role = 2 -> "Knight"
      [] role = 1 -> "Pawn"

SquareNames ==
    << "A1", "B1", "C1", "D1", "E1", "F1", "G1", "H1",
       "A2", "B2", "C2", "D2", "E2", "F2", "G2", "H2",
       "A3", "B3", "C3", "D3", "E3", "F3", "G3", "H3",
       "A4", "B4", "C4", "D4", "E4", "F4", "G4", "H4",
       "A5", "B5", "C5", "D5", "E5", "F5", "G5", "H5",
       "A6", "B6", "C6", "D6", "E6", "F6", "G6", "H6",
       "A7", "B7", "C7", "D7", "E7", "F7", "G7", "H7",
       "A8", "B8", "C8", "D8", "E8", "F8", "G8", "H8" >>

shakmaty_square_to_square(s_square) == SquareNames[s_square + 1]

FileNames == << "A", "B", "C", "D", "E", "F", "G", "H" >>

shakmaty_file_to_file(s_file) == FileNames[s_file + 1]

RankNames ==
    << "First", "Second", "Third", "Fourth", "Fifth", "Sixth", "Seventh", "Eighth" >>

shakmaty_rank_to_rank(s_rank) == RankNames[s_rank + 1]

\* faulty variant: the winner's colour is crossed
outcome_to_game_result_crossed(outcome) ==
    CASE outcome = "DecisiveWhite" -> "BlackWin"
      [] outcome = "DecisiveBlack" -> "WhiteWin"
      [] outcome = "Draw" -> "Draw"
      [] outcome = "Unknown" -> "Unknown"

outcome_to_game_result(outcome) ==
    CASE outcome = "DecisiveWhite" -> "WhiteWin"
      [] outcome = "DecisiveBlack" -> "BlackWin"
      [] outcome = "Draw" -> "Draw"
      [] outcome = "Unknown" -> "Unknown"

\* Move::default()
DefaultMove ==
    [moved_piece |-> "King", to |-> "A1", is_capture |-> FALSE,
     promoted_piece |-> None, castle |-> None,
     from_file |-> None, from_rank |-> None]

\* faulty variant: every castle is recorded as a king-side castle
SanToMove_one_side(san) ==
    IF san.kind = "Normal"
    THEN [moved_piece |-> role_to_piece(san.role),
          to |-> shakmaty_square_to_square(san.to),
          is_capture |-> san.capture,
          promoted_piece |->
              IF san.promotion = None THEN None
              ELSE Some(role_to_piece(san.promotion[1])),
          castle |-> None,
          from_file |->
              IF san.file = None THEN None
              ELSE Some(shakmaty_file_to_file(san.file[1])),
          from_rank |->
              IF san.rank = None THEN None
              ELSE Some(shakmaty_rank_to_rank(san.rank[1]))]
    ELSE [DefaultMove EXCEPT
              !.moved_piece = "King",
              !.castle = Some("Kingside")]

\* The Move that ConverterVisitor::san builds from a supported SAN.
SanToMove(san) ==
    IF san.kind = "Normal"
    THEN [moved_piece |-> role_to_piece(san.role),
          to |-> shakmaty_square_to_square(san.to),
          is_capture |-> san.capture,
          promoted_piece |->
              IF san.promotion = None THEN None
              ELSE Some(role_to_piece(san.promotion[1])),
          castle |-> None,
          from_file |->
              IF san.file = None THEN None
              ELSE Some(shakmaty_file_to_file(san.file[1])),
          from_rank |->
              IF san.rank = None THEN None
              ELSE Some(shakmaty_rank_to_rank(san.rank[1]))]
    ELSE [DefaultMove EXCEPT
              !.moved_piece = "King",
              !.castle = Some(IF san.side = "KingSide" THEN "Kingside"
                              ELSE "Queenside")]

SanSupported(san) == san.kind \in {"Normal", "Castle"}

\* The SAN tokens the reader delivers: Nf3, O-O and the null move "--".
SanNf3 ==
    [kind |-> "Normal", role |-> 2, file |-> None, rank |-> None,
     capture |-> FALSE, to |-> 21, promotion |-> None]

SanCastleKing == [kind |-> "Castle", side |-> "KingSide"]

SanNull == [kind |-> "Null"]

SanInputs == {SanNf3, SanCastleKing, SanNull}

Moves == {SanToMove(s) : s \in {t \in SanInputs : SanSupported(t)}}

Outcomes == {"DecisiveWhite", "DecisiveBlack", "Draw", "Unknown"}

(***************************************************************************)
(* The planus Builder.  The arena is the sequence of the entities written; *)
(* an Offset is the position of its entity, as planus counts it from the   *)
(* end of the buffer already written; len is the byte length.              *)
(***************************************************************************)
NewBuilder == [ents |-> <<>>, len |-> U(0)]

VectorBytes(n) == 4 + 4 * n

PreparedBytes(e) ==
    CASE e.k = "Move" -> U(24)
      [] e.k = "Game" -> U(16 + VectorBytes(Len(e.moves)))
      [] e.k = "Archive" -> U(12 + VectorBytes(Len(e.games)))
      [] e.k = "ArchiveType" -> U(12)
      [] e.k = "Block" -> U(16)
      [] e.k = "Root" -> U(4)

Prepare(b, e, nbytes) ==
    [ents |-> Append(b.ents, e), len |-> Plus(b.len, nbytes)]

Offset(b) == Len(b.ents)

MoveEntity(m) == [k |-> "Move", v |-> m]

GameEntity(g) ==
    [k |-> "Game", result |-> g.result,
     start_position |-> g.start_position, moves |-> g.moves]

\* Builder::finish(root, None): the root offset goes in front of the buffer
Finish(b, root) ==
    LET e == [k |-> "Root", block |-> root]
    IN  Prepare(b, e, PreparedBytes(e))

\* Builder::clear()
Clear(b) == NewBuilder

(***************************************************************************)
(* The Serializer, as operators on its fields.                             *)
(***************************************************************************)
EmptyMap == [m \in {} |-> 0]

Self ==
    [writer |-> writer, builder |-> builder, move_map |-> move_map,
     games_list |-> games_list, max_games_per_block |-> max_games_per_block]

\* faulty variant: no lookup, every call serializes the move again
add_move_always(s, game_move) ==
    LET b == Prepare(s.builder, MoveEntity(game_move),
                     PreparedBytes(MoveEntity(game_move)))
    IN  [self |-> [s EXCEPT !.builder = b,
                            !.move_map = (game_move :> Offset(b)) @@ @],
         ret |-> Offset(b)]

add_move(s, game_move) ==
    IF game_move \in DOMAIN s.move_map
    THEN [self |-> s, ret |-> s.move_map[game_move]]
    ELSE LET b == Prepare(s.builder, MoveEntity(game_move),
                          PreparedBytes(MoveEntity(game_move)))
         IN  [self |-> [s EXCEPT !.builder = b,
                                 !.move_map = (game_move :> Offset(b)) @@ @],
              ret |-> Offset(b)]

\* faulty variant: the dedup table survives the block
reset_keep_map(s) ==
    [s EXCEPT !.games_list = <<>>, !.builder = Clear(@)]

\* faulty variant: the game list survives the block
reset_keep_games(s) ==
    [s EXCEPT !.move_map = EmptyMap, !.builder = Clear(@)]

\* faulty variant: the arena survives the block
reset_keep_builder(s) ==
    [s EXCEPT !.move_map = EmptyMap, !.games_list = <<>>]

reset(s) ==
    [s EXCEPT !.move_map = EmptyMap, !.games_list = <<>>,
              !.builder = Clear(@)]

LenChunk(length) == [t |-> "len", bytes |-> to_le_bytes(length)]

DataChunk(result) == [t |-> "data", ents |-> result.ents, len |-> result.len]

\* What a write_all that fails part-way leaves in the sink: the first n bytes
\* of the chunk it was writing (Write::write accepted n bytes, then erred).
PartChunk(chunk, n) == [t |-> "part", of |-> chunk, n |-> n]

\* the bytes a failing write_all of the length prefix has already passed on
PartialPrefixBytes == 2

\* the bytes a failing write_all of the payload has already passed on
PartialPayloadBytes == 10

\* Write::write_all of chunk to the sink w.  outcome: "ok", "fail" when the
\* sink errs before taking a byte, "part" when it errs after taking n bytes.
write_all(w, chunk, outcome, n) ==
    CASE outcome = "ok" -> [w |-> Append(w, chunk), ret |-> <<"Ok">>]
      [] outcome = "part" -> [w |-> Append(w, PartChunk(chunk, n)),
                              ret |-> <<"Err">>]
      [] OTHER -> [w |-> w, ret |-> <<"Err">>]

\* what the write_all of the length prefix meets under io
PrefixOutcome(io) ==
    CASE io = "fail_len" -> "fail"
      [] io = "fail_len_part" -> "part"
      [] OTHER -> "ok"

\* what the write_all of the payload meets under io
PayloadOutcome(io) ==
    CASE io = "fail_data" -> "fail"
      [] io = "fail_data_part" -> "part"
      [] OTHER -> "ok"

\* finish_current_block from the finished buffer on: the two write_all calls,
\* each followed by `?`, then reset.
write_result(s, result, io) ==
    LET length == AsU32(result.len)
        first == write_all(s.writer, LenChunk(length), PrefixOutcome(io),
                           PartialPrefixBytes)
        second == write_all(first.w, DataChunk(result), PayloadOutcome(io),
                            PartialPayloadBytes)
        out == IF first.ret = <<"Err">> THEN first ELSE second
        s1 == [s EXCEPT !.builder = result, !.writer = out.w]
    IN  IF out.ret = <<"Err">> THEN [self |-> s1, ret |-> out.ret]
        ELSE [self |-> reset(s1), ret |-> <<"Ok">>]

\* The body of finish_current_block.  io: which write_all fails and whether it
\* fails after part of its bytes reached the sink; "ok" when none does.
write_block(s, io) ==
    LET archive == [k |-> "Archive", games |-> s.games_list]
        b1 == Prepare(s.builder, archive, PreparedBytes(archive))
        archive_type == [k |-> "ArchiveType", archive |-> Offset(b1)]
        b2 == Prepare(b1, archive_type, PreparedBytes(archive_type))
        block == [k |-> "Block", archive |-> Offset(b2)]
        b3 == Prepare(b2, block, PreparedBytes(block))
        result == Finish(b3, Offset(b3))
    IN  write_result(s, result, io)

\* faulty variant: nothing is written when no game was accumulated
finish_current_block_skip_empty(s, io) ==
    IF s.games_list = <<>> THEN [self |-> s, ret |-> <<"Ok">>]
    ELSE write_block(s, io)

finish_current_block(s, io) == write_block(s, io)

\* faulty variant: at the threshold the block is written without the new game
add_game_lost(s, game, io) ==
    LET b == Prepare(s.builder, GameEntity(game), game.nbytes)
        s1 == [s EXCEPT !.builder = b]
    IN  IF Len(s1.games_list) + 1 >= s1.max_games_per_block
        THEN LET f == finish_current_block(s1, io)
             IN  [self |-> f.self, fin |-> f.ret[1],
                  ret |-> IF f.ret[1] = "Ok" THEN <<"Ok", Offset(b)>>
                          ELSE <<"Err">>]
        ELSE [self |-> [s1 EXCEPT !.games_list = Append(@, Offset(b))],
              fin |-> "none", ret |-> <<"Ok", Offset(b)>>]

\* faulty variant: the block is cut only once the list is longer than the threshold
add_game_gt(s, game, io) ==
    LET b == Prepare(s.builder, GameEntity(game), game.nbytes)
        s1 == [s EXCEPT !.builder = b,
                        !.games_list = Append(@, Offset(b))]
    IN  IF Len(s1.games_list) > s1.max_games_per_block
        THEN LET f == finish_current_block(s1, io)
             IN  [self |-> f.self, fin |-> f.ret[1],
                  ret |-> IF f.ret[1] = "Ok" THEN <<"Ok", Offset(b)>>
                          ELSE <<"Err">>]
        ELSE [self |-> s1, fin |-> "none", ret |-> <<"Ok", Offset(b)>>]

\* faulty variant: the new game goes to the front of the list
add_game_prepend(s, game, io) ==
    LET b == Prepare(s.builder, GameEntity(game), game.nbytes)
        s1 == [s EXCEPT !.builder = b,
                        !.games_list = <<Offset(b)>> \o @]
    IN  IF Len(s1.games_list) >= s1.max_games_per_block
        THEN LET f == finish_current_block(s1, io)
             IN  [self |-> f.self, fin |-> f.ret[1],
                  ret |-> IF f.ret[1] = "Ok" THEN <<"Ok", Offset(b)>>
                          ELSE <<"Err">>]
        ELSE [self |-> s1, fin |-> "none", ret |-> <<"Ok", Offset(b)>>]

\* fin: what the finish_current_block it called returned, "none" without one
add_game(s, game, io) ==
    LET b == Prepare(s.builder, GameEntity(game), game.nbytes)
        s1 == [s EXCEPT !.builder = b,
                        !.games_list = Append(@, Offset(b))]
    IN  IF Len(s1.games_list) >= s1.max_games_per_block
        THEN LET f == finish_current_block(s1, io)
             IN  [self |-> f.self, fin |-> f.ret[1],
                  ret |-> IF f.ret[1] = "Ok" THEN <<"Ok", Offset(b)>>
                          ELSE <<"Err">>]
        ELSE [self |-> s1, fin |-> "none", ret |-> <<"Ok", Offset(b)>>]

(***************************************************************************)
(* The state after construction: Serializer::new, not yet handed to a      *)
(* Converter.                                                              *)
(***************************************************************************)
NoCall == [op |-> "new", arg |-> None, ret |-> None, fin |-> "none"]

NoneIssued == [m \in Moves |-> [refs |-> {}, n |-> 0]]

\* the history of add_move after one more call with m that returned ref
Issue(m, ref) ==
    [issued EXCEPT ![m] = [refs |-> @.refs \cup {ref}, n |-> @.n + 1]]

InitLibrary ==
    /\ writer = <<>>
    /\ builder = NewBuilder
    /\ move_map = EmptyMap
    /\ games_list = <<>>
    /\ max_games_per_block = MAX_GAMES_PER_BLOCK
    /\ current_moves = <<>>
    /\ game_count = 0
    /\ last_call = NoCall
    /\ issued = NoneIssued
    /\ added = <<>>
    /\ block_moves = <<>>
    /\ stats = [calls |-> 0, failures |-> 0, finishes |-> 0, ok_true |-> 0,
                reconfigured |-> FALSE, panicked |-> FALSE]
    /\ game_refs = <<>>

Init ==
    /\ InitLibrary
    /\ pc = "ser"
    /\ gw = None
    /\ codec = None

Store(s) ==
    /\ writer' = s.writer
    /\ builder' = s.builder
    /\ move_map' = s.move_map
    /\ games_list' = s.games_list
    /\ max_games_per_block' = s.max_games_per_block

\* the write_all outcomes a call may meet
IoChoices ==
    {"ok"} \cup (IF stats.failures < MaxFailures
                 THEN {"fail_len", "fail_len_part",
                       "fail_data", "fail_data_part"} ELSE {})

\* the history variables after a call whose finish_current_block returned fin
History(fin, explicit, panics) ==
    /\ issued' = IF fin = "Ok" THEN NoneIssued ELSE issued
    /\ block_moves' = IF fin = "Ok"
                      THEN Append(block_moves, [m \in Moves |-> issued[m].n])
                      ELSE block_moves
    /\ stats' = [stats EXCEPT
                     !.calls = @ + 1,
                     !.failures = IF fin = "Err" THEN @ + 1 ELSE @,
                     !.finishes = IF explicit THEN @ + 1 ELSE @,
                     !.panicked = @ \/ (panics /\ fin = "Err")]

(***************************************************************************)
(* The Serializer's operations, called directly by its owner.              *)
(***************************************************************************)
SetMaxGamesPerBlock(n) ==
    /\ pc = "ser"
    /\ stats.calls < MaxCalls
    /\ max_games_per_block' = n
    /\ last_call' = [op |-> "set_max_games_per_block", arg |-> n,
                     ret |-> None, fin |-> "none"]
    /\ stats' = [stats EXCEPT !.calls = @ + 1,
                              !.reconfigured = @ \/ added # <<>>]
    /\ UNCHANGED <<writer, builder, move_map, games_list, current_moves,
                   game_count, pc, issued, added, block_moves>>
    /\ UNCHANGED <<game_refs, gw, codec>>

AddMove(m) ==
    /\ pc = "ser"
    /\ stats.calls < MaxCalls
    /\ LET r == add_move(Self, m)
       IN  /\ Store(r.self)
           /\ last_call' = [op |-> "add_move", arg |-> m, ret |-> r.ret,
                            fin |-> "none"]
           /\ issued' = Issue(m, r.ret)
    /\ stats' = [stats EXCEPT !.calls = @ + 1]
    /\ UNCHANGED <<current_moves, game_count, pc, added, block_moves>>
    /\ UNCHANGED <<game_refs, gw, codec>>

\* a game whose move vector alone fills 2^32 bytes
HugeGameBytes == [hi |-> Limb, lo |-> 0]

\* The values handed to add_game: a result, references add_move returned in
\* this block, and the bytes the value's prepare() writes.
GameInput(res, ms, nb) ==
    [result |-> res, start_position |-> None, moves |-> ms, nbytes |-> nb]

\* the bytes Game::builder()...prepare() writes for a move list ms
GameBytes(ms) ==
    PreparedBytes([k |-> "Game", moves |-> ms])

GameInputs ==
    {GameInput("WhiteWin", <<r>>, GameBytes(<<r>>)) :
        r \in UNION {issued[m].refs : m \in Moves}}
    \cup {GameInput("Draw", <<>>, GameBytes(<<>>)),
          GameInput("Unknown", <<>>, HugeGameBytes)}

AddGame(game, io) ==
    /\ pc = "ser"
    /\ stats.calls < MaxCalls
    /\ LET r == add_game(Self, game, io)
       IN  /\ Store(r.self)
           /\ last_call' = [op |-> "add_game", arg |-> None,
                            ret |-> r.ret, fin |-> r.fin]
           /\ History(r.fin, FALSE, FALSE)
    /\ added' = Append(added, GameEntity(game))
    /\ UNCHANGED <<current_moves, game_count, pc>>
    /\ UNCHANGED <<game_refs, gw, codec>>

FinishCurrentBlock(io) ==
    /\ pc = "ser"
    /\ stats.calls < MaxCalls
    /\ LET r == finish_current_block(Self, io)
       IN  /\ Store(r.self)
           /\ last_call' = [op |-> "finish_current_block", arg |-> None,
                            ret |-> r.ret, fin |-> r.ret[1]]
           /\ History(r.ret[1], TRUE, FALSE)
    /\ UNCHANGED <<current_moves, game_count, pc, added>>
    /\ UNCHANGED <<game_refs, gw, codec>>

NextSer ==
    \/ \E n \in Thresholds : SetMaxGamesPerBlock(n)
    \/ \E m \in Moves : AddMove(m)
    \/ \E game \in GameInputs, io \in IoChoices : AddGame(game, io)
    \/ \E io \in IoChoices : FinishCurrentBlock(io)

Spec == Init /\ [][NextSer]_vars

(***************************************************************************)
(* The Converter.  Converter::new takes the Serializer; next_game runs the *)
(* reader, which calls the visitor back: begin_tags and begin_movetext     *)
(* (BeginGame), san, outcome, end_game.  pc is "idle" between calls of     *)
(* next_game, "movetext" inside one, "panic" while a panic unwinds, and    *)
(* "dropped", "drop_panicked" or "aborted" once the Converter is gone.     *)
(***************************************************************************)
Event(op, arg, ret, fin) ==
    /\ last_call' = [op |-> op, arg |-> arg, ret |-> ret, fin |-> fin]

ConverterNew ==
    /\ pc = "ser"
    /\ pc' = "idle"
    /\ current_moves' = <<>>
    /\ game_count' = 0
    /\ Event("Converter::new", None, None, "none")
    /\ UNCHANGED <<writer, builder, move_map, games_list, max_games_per_block,
                   issued, added, block_moves, stats>>
    /\ game_refs' = <<>>
    /\ UNCHANGED <<gw, codec>>

\* next_game: the reader has no more games, read_game returns Ok(None)
NextGameEof ==
    /\ pc = "idle"
    /\ stats.calls < MaxEvents
    /\ game_count' = game_count + 1
    /\ Event("next_game", None, <<"Ok", FALSE>>, "none")
    /\ stats' = [stats EXCEPT !.calls = @ + 1]
    /\ UNCHANGED <<writer, builder, move_map, games_list, max_games_per_block,
                   current_moves, pc, issued, added, block_moves>>
    /\ UNCHANGED <<game_refs, gw, codec>>

\* next_game: read_game fails, before a game or inside one, and `?` returns
ReadError ==
    /\ pc \in {"idle", "movetext"}
    /\ stats.calls < MaxEvents
    /\ pc' = "idle"
    /\ Event("next_game", None, <<"Err">>, "none")
    /\ stats' = [stats EXCEPT !.calls = @ + 1]
    /\ UNCHANGED <<writer, builder, move_map, games_list, max_games_per_block,
                   current_moves, game_count, issued, added, block_moves>>
    /\ UNCHANGED <<game_refs, gw, codec>>

\* next_game: read_game finds a game; begin_tags, begin_movetext
BeginGame ==
    /\ pc = "idle"
    /\ stats.calls < MaxEvents
    /\ pc' = "movetext"
    /\ Event("begin_movetext", None, None, "none")
    /\ stats' = [stats EXCEPT !.calls = @ + 1]
    /\ UNCHANGED <<writer, builder, move_map, games_list, max_games_per_block,
                   current_moves, game_count, issued, added, block_moves>>
    /\ game_refs' = <<>>
    /\ UNCHANGED <<gw, codec>>

\* faulty variant: an unsupported move is passed over and the game goes on
San_skip_unsupported(san) ==
    /\ pc = "movetext"
    /\ stats.calls < MaxEvents
    /\ stats' = [stats EXCEPT !.calls = @ + 1,
                              !.panicked = @ \/ ~SanSupported(san)]
    /\ IF SanSupported(san)
       THEN LET made_move == SanToMove(san)
                r == add_move(Self, made_move)
            IN  /\ Store(r.self)
                /\ current_moves' = Append(current_moves, r.ret)
                /\ issued' = Issue(made_move, r.ret)
                /\ game_refs' = Append(game_refs, r.ret)
                /\ Event("san", made_move, r.ret, "none")
                /\ pc' = pc
       ELSE /\ pc' = pc
            /\ Event("san_skipped", None, None, "none")
            /\ UNCHANGED <<writer, builder, move_map, games_list,
                           max_games_per_block, current_moves, issued,
                           game_refs>>
    /\ UNCHANGED <<game_count, added, block_moves, gw, codec>>

San(san) ==
    /\ pc = "movetext"
    /\ stats.calls < MaxEvents
    /\ stats' = [stats EXCEPT !.calls = @ + 1,
                              !.panicked = @ \/ ~SanSupported(san)]
    /\ IF SanSupported(san)
       THEN LET made_move == SanToMove(san)
                r == add_move(Self, made_move)
            IN  /\ Store(r.self)
                /\ current_moves' = Append(current_moves, r.ret)
                /\ issued' = Issue(made_move, r.ret)
                /\ game_refs' = Append(game_refs, r.ret)
                /\ Event("san", made_move, r.ret, "none")
                /\ pc' = pc
       ELSE \* panic!("Unsupported move type.")
            /\ pc' = "panic"
            /\ Event("san_panic", None, None, "none")
            /\ UNCHANGED <<writer, builder, move_map, games_list,
                           max_games_per_block, current_moves, issued,
                           game_refs>>
    /\ UNCHANGED <<game_count, added, block_moves, gw, codec>>

\* The Game that ConverterVisitor::outcome builds and prepares: the
\* translated result, start_position_as_null() and the moves collected.
OutcomeGame(outcome, moves) ==
    LET result == outcome_to_game_result(outcome)
        game == [result |-> result, start_position |-> None,
                 moves |-> moves]
    IN  GameInput(game.result, game.moves, GameBytes(game.moves))

Outcome(outcome, io) ==
    /\ pc = "movetext"
    /\ stats.calls < MaxEvents
    /\ LET res == OutcomeGame(outcome, current_moves)
           r == add_game(Self, res, io)
       IN  /\ Store(r.self)
           /\ added' = Append(added, GameEntity(res))
           /\ History(r.fin, FALSE, TRUE)
           /\ IF r.ret[1] = "Err"
              THEN \* add_game(..).unwrap() panics
                   /\ pc' = "panic"
                   /\ current_moves' = current_moves
                   /\ game_refs' = game_refs
                   /\ Event("outcome_panic", None, r.ret, r.fin)
              ELSE /\ pc' = pc
                   /\ current_moves' = <<>>
                   /\ game_refs' = <<>>
                   /\ Event("outcome", None, r.ret, r.fin)
    /\ UNCHANGED <<game_count, gw, codec>>

\* end_game; read_game returns Ok(Some(())) and next_game Ok(true)
EndGame ==
    /\ pc = "movetext"
    /\ stats.calls < MaxEvents
    /\ pc' = "idle"
    /\ game_count' = game_count + 1
    /\ Event("next_game", None, <<"Ok", TRUE>>, "none")
    /\ stats' = [stats EXCEPT !.calls = @ + 1, !.ok_true = @ + 1]
    /\ UNCHANGED <<writer, builder, move_map, games_list, max_games_per_block,
                   current_moves, issued, added, block_moves>>
    /\ UNCHANGED <<game_refs, gw, codec>>

flush(s, io) == finish_current_block(s, io)

Flush(io) ==
    /\ pc = "idle"
    /\ stats.calls < MaxEvents
    /\ LET r == flush(Self, io)
       IN  /\ Store(r.self)
           /\ Event("flush", None, r.ret, r.ret[1])
           /\ History(r.ret[1], TRUE, FALSE)
    /\ UNCHANGED <<current_moves, game_count, pc, added>>
    /\ UNCHANGED <<game_refs, gw, codec>>

\* faulty variant: a Converter without the Drop implementation
drop_without_flush(s, io) == [self |-> s, ret |-> <<"Ok">>]

\* Drop::drop, up to the unwrap
drop(s, io) == flush(s, io)

\* The Converter's owner lets go of it, or a panic unwinds through it.
\* flush().unwrap() panics on Err; a panic while panicking aborts.
Drop(io) ==
    /\ pc \in {"idle", "panic"}
    /\ LET r == drop(Self, io)
       IN  /\ Store(r.self)
           /\ Event("drop", None, r.ret, r.ret[1])
           /\ History(r.ret[1], TRUE, TRUE)
           /\ pc' = IF r.ret[1] = "Ok" THEN "dropped"
                    ELSE IF pc = "panic" THEN "aborted"
                    ELSE "drop_panicked"
    /\ UNCHANGED <<current_moves, game_count, added>>
    /\ UNCHANGED <<game_refs, gw, codec>>

\* The outcomes the reader delivers to the Converter here: "1-0" and "*".
OutcomeInputs == {"DecisiveWhite", "Unknown"}

NextConv ==
    \/ \E n \in Thresholds : SetMaxGamesPerBlock(n)
    \/ ConverterNew
    \/ NextGameEof
    \/ ReadError
    \/ BeginGame
    \/ \E san \in SanInputs : San(san)
    \/ \E outcome \in OutcomeInputs, io \in IoChoices : Outcome(outcome, io)
    \/ EndGame
    \/ \E io \in IoChoices : Flush(io)
    \/ \E io \in IoChoices : Drop(io)

SpecConv == Init /\ [][NextConv]_vars

IsData(c) == c.t = "data"

(***************************************************************************)
(* The command-line encoder of main.rs: a GameWriter that is itself the    *)
(* reader's visitor.  gw holds its fields, the Tags and Movetext values    *)
(* the reader carries between the callbacks of one game, a log of the      *)
(* games it recorded, and in `own` the offsets add_move pushed for the     *)
(* game being read since its last outcome.  pc is "cli_idle" between       *)
(* games, "cli_tags" and "cli_movetext" inside one, "cli_done" after       *)
(* main's last finalize, "cli_failed" after a read error and "cli_panic"   *)
(* after a failed write.                                                   *)
(* main.rs has its own role_to_piece and outcome_to_game_result, arm for   *)
(* arm those of utils.rs.                                                  *)
(***************************************************************************)
CLI_MAX_GAMES_PER_BLOCK == 500000

s_square_to_square(s_square) == SquareNames[s_square + 1]

\* Move::default() with the fields main.rs names
GameWriter_DefaultMove ==
    [moved_piece |-> "King", from |-> "A1", to |-> "A1",
     promoted_piece |-> None, is_check |-> FALSE, is_capture |-> FALSE,
     castle |-> None]

\* the Move that GameWriter::add_move builds from a resolved shakmaty::Move
GameWriter_made_move(move_to_add, is_check) ==
    IF move_to_add.is_castle
    THEN [GameWriter_DefaultMove EXCEPT
              !.moved_piece = "King",
              !.castle = Some(IF move_to_add.castling_side = "KingSide"
                              THEN "Kingside" ELSE "Queenside")]
    ELSE [GameWriter_DefaultMove EXCEPT
              !.moved_piece = role_to_piece(move_to_add.role),
              !.from = IF move_to_add.from = None THEN "A1"
                       ELSE s_square_to_square(move_to_add.from[1]),
              !.to = s_square_to_square(move_to_add.to),
              !.promoted_piece =
                  IF move_to_add.promotion = None THEN None
                  ELSE Some(role_to_piece(move_to_add.promotion[1])),
              !.is_check = is_check,
              !.is_capture = move_to_add.is_capture]

GameWriter_add_move(g, move_to_add, is_check) ==
    LET made_move == GameWriter_made_move(move_to_add, is_check)
        entity == MoveEntity(made_move)
        b == Prepare(g.current_builder, entity, PreparedBytes(entity))
        found == made_move \in DOMAIN g.move_map
        offset == IF found THEN g.move_map[made_move] ELSE Offset(b)
        g1 == IF found THEN g
              ELSE [g EXCEPT !.current_builder = b,
                             !.move_map = (made_move :> offset) @@ @]
    IN  [g1 EXCEPT !.current_moves = Append(@, offset)]

\* games.len(): the games listed and the bulk games before them
GameWriter_games_len(g) == g.bulk + Len(g.games)

GameWriter_reset(g) ==
    [g EXCEPT !.move_map = EmptyMap, !.current_moves = <<>>,
              !.games = <<>>, !.bulk = 0,
              !.current_builder = Clear(@)]

\* GameWriter::finalize from the finished buffer on: the two
\* write_all(..).unwrap() calls, then reset.
GameWriter_write_result(g, result, io) ==
    LET length == AsU32(result.len)
        first == write_all(g.out_file, LenChunk(length), PrefixOutcome(io),
                           PartialPrefixBytes)
        second == write_all(first.w, DataChunk(result), PayloadOutcome(io),
                            PartialPayloadBytes)
        out == IF first.ret = <<"Err">> THEN first ELSE second
        g1 == [g EXCEPT !.current_builder = result, !.out_file = out.w]
    IN  IF out.ret = <<"Err">> THEN [self |-> g1, ret |-> "Panic"]
        ELSE [self |-> GameWriter_reset(g1), ret |-> "Ok"]

\* GameWriter::finalize.  io: which write_all fails and makes unwrap panic.
GameWriter_finalize(g, io) ==
    LET n == GameWriter_games_len(g)
        archive == [k |-> "Archive", games |-> g.games, bulk |-> g.bulk]
        b1 == Prepare(g.current_builder, archive, U(12 + VectorBytes(n)))
        archive_type == [k |-> "ArchiveType", archive |-> Offset(b1)]
        b2 == Prepare(b1, archive_type, PreparedBytes(archive_type))
        block == [k |-> "Block", archive |-> Offset(b2)]
        b3 == Prepare(b2, block, PreparedBytes(block))
        result == Finish(b3, Offset(b3))
    IN  GameWriter_write_result(g, result, io)

GameWriter_add_game(g, result, io) ==
    LET game == GameInput(result, g.current_moves, GameBytes(g.current_moves))
        b == Prepare(g.current_builder, GameEntity(game), game.nbytes)
        g1 == [g EXCEPT !.current_builder = b,
                        !.current_moves = <<>>,
                        !.games = Append(@, Offset(b))]
    IN  IF GameWriter_games_len(g1) > CLI_MAX_GAMES_PER_BLOCK
        THEN GameWriter_finalize(g1, io)
        ELSE [self |-> g1, ret |-> "Ok"]

\* GameWriter::new, and the reader before its first game.  bulk counts the
\* games of the current block that are not listed one by one: games with no
\* move and the result "*", of 20 bytes each, read before the games listed.
GameWriter_new(bulk) ==
    [current_builder |-> [ents |-> <<>>,
                          len |-> U(bulk * GameBytes(<<>>).lo)],
     out_file |-> <<>>,
     current_moves |-> <<>>,
     move_map |-> EmptyMap,
     games |-> <<>>,
     bulk |-> bulk,
     tags |-> None,
     movetext |-> None,
     log |-> <<>>,
     own |-> <<>>]

\* how many games the input held before the games the reader delivers here
BulkInputs == {0, CLI_MAX_GAMES_PER_BLOCK - 1}

\* the rest of the module's state, which main.rs never touches
library_but_codec ==
    <<writer, builder, move_map, games_list, max_games_per_block,
      current_moves, game_count, last_call, issued, added, block_moves,
      game_refs>>

library == <<library_but_codec, codec>>

InitCli ==
    /\ InitLibrary
    /\ codec = None
    /\ pc = "cli_idle"
    /\ gw \in {GameWriter_new(n) : n \in BulkInputs}

Step ==
    /\ stats.calls < MaxEvents
    /\ stats' = [stats EXCEPT !.calls = @ + 1]

\* read_game finds a game: begin_tags
CliBeginTags ==
    /\ pc = "cli_idle"
    /\ Step
    /\ pc' = "cli_tags"
    /\ gw' = [gw EXCEPT !.tags = None, !.own = <<>>]
    /\ UNCHANGED library

\* the positions a FEN tag's value parses to, and the values that do not parse
FenValues == {"8/8/8/8/8/8/8/K6k w", "not a fen", "8/8/8/8/8/8/8/8 w"}

Fen_from_ascii(value) ==
    IF value = "not a fen" THEN <<"Err">> ELSE <<"Ok", value>>

Fen_into_position(fen) ==
    IF fen = "8/8/8/8/8/8/8/8 w" THEN <<"Err">> ELSE <<"Ok", fen>>

TagInputs == {<<"Event", "?">>} \cup {<<"FEN", v>> : v \in FenValues}

CliTag(name, value) ==
    /\ pc = "cli_tags"
    /\ Step
    /\ IF name = "FEN"
       THEN LET fen == Fen_from_ascii(value)
                pos == Fen_into_position(fen[2])
            IN  IF fen[1] = "Err" \/ pos[1] = "Err"
                THEN \* ControlFlow::Break: the reader skips the game
                     /\ pc' = "cli_idle"
                     /\ gw' = gw
                ELSE /\ pc' = pc
                     /\ gw' = [gw EXCEPT !.tags = Some(pos[2])]
       ELSE UNCHANGED <<pc, gw>>
    /\ UNCHANGED library

\* begin_movetext: tags.unwrap_or_default(); None stands for Chess::default()
CliBeginMovetext ==
    /\ pc = "cli_tags"
    /\ Step
    /\ pc' = "cli_movetext"
    /\ gw' = [gw EXCEPT !.movetext = [start |-> gw.tags, played |-> 0],
                        !.tags = None]
    /\ UNCHANGED library

\* What san.to_move(movetext) makes of the SAN in the position, and whether
\* the position after the move is check.
CliNf3 ==
    [is_castle |-> FALSE, role |-> 2, from |-> Some(6), to |-> 21,
     is_capture |-> FALSE, promotion |-> None]

CliCastleKing == [is_castle |-> TRUE, castling_side |-> "KingSide"]

CliCastleQueen == [is_castle |-> TRUE, castling_side |-> "QueenSide"]

CliSanInputs ==
    {<<"Err">>, <<"Ok", CliNf3, FALSE>>, <<"Ok", CliCastleKing, TRUE>>}

CliSan(to_move) ==
    /\ pc = "cli_movetext"
    /\ Step
    /\ IF to_move[1] = "Err"
       THEN \* ControlFlow::Break: the reader skips the rest of the game
            /\ pc' = "cli_idle"
            /\ gw' = gw
       ELSE /\ pc' = pc
            /\ LET g == GameWriter_add_move(gw, to_move[2], to_move[3])
               IN  gw' = [g EXCEPT
                              !.movetext.played = @ + 1,
                              !.own = Append(@, g.current_moves[
                                                    Len(g.current_moves)])]
    /\ UNCHANGED library

CliOutcome(outcome, io) ==
    /\ pc = "cli_movetext"
    /\ stats.calls < MaxEvents
    /\ LET result == outcome_to_game_result(outcome)
           game == GameInput(result, gw.current_moves,
                             GameBytes(gw.current_moves))
           r == GameWriter_add_game(gw, result, io)
       IN  /\ gw' = [r.self EXCEPT
                         !.log = Append(@, [start |-> gw.movetext.start,
                                            outcome |-> outcome,
                                            own |-> gw.own,
                                            game |-> GameEntity(game)]),
                         !.own = <<>>]
           /\ pc' = IF r.ret = "Panic" THEN "cli_panic" ELSE pc
           /\ stats' = [stats EXCEPT
                            !.calls = @ + 1,
                            !.failures = IF r.ret = "Panic" THEN @ + 1 ELSE @]
    /\ UNCHANGED library

\* end_game: only the progress bar moves
CliEndGame ==
    /\ pc = "cli_movetext"
    /\ Step
    /\ pc' = "cli_idle"
    /\ gw' = gw
    /\ UNCHANGED library

\* visit_all_games fails and `?` returns from main
CliReadError ==
    /\ pc \in {"cli_idle", "cli_tags", "cli_movetext"}
    /\ Step
    /\ pc' = "cli_failed"
    /\ gw' = gw
    /\ UNCHANGED library

\* the input is exhausted: main calls visitor.finalize()
CliFinalize(io) ==
    /\ pc = "cli_idle"
    /\ LET r == GameWriter_finalize(gw, io)
       IN  /\ gw' = r.self
           /\ pc' = IF r.ret = "Panic" THEN "cli_panic" ELSE "cli_done"
           /\ stats' = [stats EXCEPT
                            !.calls = @ + 1,
                            !.failures = IF r.ret = "Panic" THEN @ + 1 ELSE @]
    /\ UNCHANGED library

NextCli ==
    \/ CliBeginTags
    \/ \E t \in TagInputs : CliTag(t[1], t[2])
    \/ CliBeginMovetext
    \/ \E to_move \in CliSanInputs : CliSan(to_move)
    \/ \E outcome \in Outcomes, io \in IoChoices : CliOutcome(outcome, io)
    \/ CliEndGame
    \/ CliReadError
    \/ \E io \in IoChoices : CliFinalize(io)

SpecCli == InitCli /\ [][NextCli]_vars

\* the blocks the GameWriter wrote and how many games each holds
CliBlocks == SelectSeq(gw.out_file, IsData)

CliBlockGameCount(c) ==
    LET root == c.ents[Len(c.ents)]
        block == c.ents[root.block]
        archive_type == c.ents[block.archive]
        archive == c.ents[archive_type.archive]
    IN  archive.bulk + Len(archive.games)

(***************************************************************************)
(* The conversions back, utils.rs, and one notation value taken through    *)
(* the encoder and back: san builds the Move and submits it to a fresh     *)
(* Serializer, move_ref_to_san reads the Move back from the arena, outcome *)
(* builds the Game and adds it.                                            *)
(***************************************************************************)
Pieces == {"King", "Queen", "Rook", "Bishop", "Knight", "Pawn"}

piece_to_role(piece) ==
    CASE piece = "King" -> 6
      [] piece = "Queen" -> 5
      [] piece = "Rook" -> 4
      [] piece = "Bishop" -> 3
      [] piece = "Knight" -> 2
      [] piece = "Pawn" -> 1

\* reverse_square_match!: shakmaty's square of the same name
SquareIndex ==
    [ A1 |-> 0, B1 |-> 1, C1 |-> 2, D1 |-> 3, E1 |-> 4, F1 |-> 5, G1 |-> 6, H1 |-> 7,
      A2 |-> 8, B2 |-> 9, C2 |-> 10, D2 |-> 11, E2 |-> 12, F2 |-> 13, G2 |-> 14, H2 |-> 15,
      A3 |-> 16, B3 |-> 17, C3 |-> 18, D3 |-> 19, E3 |-> 20, F3 |-> 21, G3 |-> 22, H3 |-> 23,
      A4 |-> 24, B4 |-> 25, C4 |-> 26, D4 |-> 27, E4 |-> 28, F4 |-> 29, G4 |-> 30, H4 |-> 31,
      A5 |-> 32, B5 |-> 33, C5 |-> 34, D5 |-> 35, E5 |-> 36, F5 |-> 37, G5 |-> 38, H5 |-> 39,
      A6 |-> 40, B6 |-> 41, C6 |-> 42, D6 |-> 43, E6 |-> 44, F6 |-> 45, G6 |-> 46, H6 |-> 47,
      A7 |-> 48, B7 |-> 49, C7 |-> 50, D7 |-> 51, E7 |-> 52, F7 |-> 53, G7 |-> 54, H7 |-> 55,
      A8 |-> 56, B8 |-> 57, C8 |-> 58, D8 |-> 59, E8 |-> 60, F8 |-> 61, G8 |-> 62, H8 |-> 63 ]

square_to_shakmaty_square(square) == SquareIndex[square]

\* the closure move_ref_to_san maps over from_file
file_to_shakmaty_file(f) ==
    CASE f = "A" -> 0 [] f = "B" -> 1 [] f = "C" -> 2 [] f = "D" -> 3
      [] f = "E" -> 4 [] f = "F" -> 5 [] f = "G" -> 6 [] f = "H" -> 7

\* the closure move_ref_to_san maps over from_rank
rank_to_shakmaty_rank(r) ==
    CASE r = "First" -> 0 [] r = "Second" -> 1 [] r = "Third" -> 2
      [] r = "Fourth" -> 3 [] r = "Fifth" -> 4 [] r = "Sixth" -> 5
      [] r = "Seventh" -> 6 [] r = "Eighth" -> 7

\* faulty variant: the rank hint is not read back
move_ref_to_san_no_rank(move_ref) ==
    IF move_ref.castle # None
    THEN <<"Ok", [kind |-> "Castle",
                  side |-> CASE move_ref.castle[1] = "Kingside" -> "KingSide"
                             [] move_ref.castle[1] = "Queenside" -> "QueenSide"]>>
    ELSE LET role == piece_to_role(move_ref.moved_piece)
             to == square_to_shakmaty_square(move_ref.to)
             capture == move_ref.is_capture
             promotion == IF move_ref.promoted_piece = None THEN None
                          ELSE Some(piece_to_role(move_ref.promoted_piece[1]))
             from_file == IF move_ref.from_file = None THEN None
                          ELSE Some(file_to_shakmaty_file(move_ref.from_file[1]))
             from_rank == None
         IN  <<"Ok", [kind |-> "Normal", role |-> role, file |-> from_file,
                      rank |-> from_rank, capture |-> capture, to |-> to,
                      promotion |-> promotion]>>

\* move_ref: the Move as its accessors read it from the buffer
move_ref_to_san(move_ref) ==
    IF move_ref.castle # None
    THEN <<"Ok", [kind |-> "Castle",
                  side |-> CASE move_ref.castle[1] = "Kingside" -> "KingSide"
                             [] move_ref.castle[1] = "Queenside" -> "QueenSide"]>>
    ELSE LET role == piece_to_role(move_ref.moved_piece)
             to == square_to_shakmaty_square(move_ref.to)
             capture == move_ref.is_capture
             promotion == IF move_ref.promoted_piece = None THEN None
                          ELSE Some(piece_to_role(move_ref.promoted_piece[1]))
             from_file == IF move_ref.from_file = None THEN None
                          ELSE Some(file_to_shakmaty_file(move_ref.from_file[1]))
             from_rank == IF move_ref.from_rank = None THEN None
                          ELSE Some(rank_to_shakmaty_rank(move_ref.from_rank[1]))
         IN  <<"Ok", [kind |-> "Normal", role |-> role, file |-> from_file,
                      rank |-> from_rank, capture |-> capture, to |-> to,
                      promotion |-> promotion]>>

Roles == 1..6

Squares == 0..63

Hints == {None} \cup {Some(i) : i \in 0..7}

\* The notation moves taken through the encoder: every piece to every
\* square, a pawn move to e8 with every promotion and every file and rank
\* hint, both castles and the null move.
CodecSans ==
    {[kind |-> "Normal", role |-> ro, file |-> None, rank |-> None,
      capture |-> c, to |-> sq, promotion |-> None] :
        ro \in Roles, sq \in Squares, c \in BOOLEAN}
    \cup {[kind |-> "Normal", role |-> 1, file |-> f, rank |-> ra,
           capture |-> c, to |-> 60, promotion |-> p] :
             f \in Hints, ra \in Hints, c \in BOOLEAN,
             p \in {None} \cup {Some(ro) : ro \in Roles}}
    \cup {[kind |-> "Castle", side |-> sd] : sd \in {"KingSide", "QueenSide"}}
    \cup {SanNull}

\* Serializer::new over an empty sink
NewSerializer ==
    [writer |-> <<>>, builder |-> NewBuilder, move_map |-> EmptyMap,
     games_list |-> <<>>, max_games_per_block |-> MAX_GAMES_PER_BLOCK]

InitCodec ==
    /\ InitLibrary
    /\ pc = "codec"
    /\ gw = None
    /\ codec \in {[san |-> s, serializer |-> NewSerializer,
                   made_move |-> None, current_moves |-> <<>>,
                   back |-> None, game |-> None, panicked |-> FALSE] :
                     s \in CodecSans}

\* how often the same notation move is delivered
MaxRepeat == 2

\* ConverterVisitor::san on codec.san
CodecSan ==
    /\ pc = "codec"
    /\ ~codec.panicked
    /\ Len(codec.current_moves) < MaxRepeat
    /\ codec.game = None
    /\ IF SanSupported(codec.san)
       THEN LET made_move == SanToMove(codec.san)
                r == add_move(codec.serializer, made_move)
            IN  codec' = [codec EXCEPT
                              !.serializer = r.self,
                              !.made_move = Some(made_move),
                              !.current_moves = Append(@, r.ret)]
       ELSE codec' = [codec EXCEPT !.panicked = TRUE]
    /\ UNCHANGED <<library_but_codec, pc, stats, gw>>

\* the Move references a reader of the arena can follow: those of the game
\* in progress, or, once outcome has stored the Game and emptied
\* current_moves, those of the stored Game
CodecRefs ==
    IF codec.game = None THEN codec.current_moves
    ELSE codec.game[1].stored.moves

\* move_ref_to_san on the Move the first reference points at
CodecBack ==
    /\ pc = "codec"
    /\ CodecRefs # <<>>
    /\ codec.back = None
    /\ LET move_ref == codec.serializer.builder.ents[CodecRefs[1]].v
       IN  codec' = [codec EXCEPT !.back = Some(move_ref_to_san(move_ref))]
    /\ UNCHANGED <<library_but_codec, pc, stats, gw>>

\* ConverterVisitor::outcome
CodecOutcome(outcome) ==
    /\ pc = "codec"
    /\ ~codec.panicked
    /\ codec.game = None
    /\ LET res == OutcomeGame(outcome, codec.current_moves)
           r == add_game(codec.serializer, res, "ok")
       IN  codec' = [codec EXCEPT
                         !.serializer = r.self,
                         !.current_moves = <<>>,
                         !.game = Some([outcome |-> outcome,
                                        res |-> res,
                                        stored |-> r.self.builder.ents[r.ret[2]]])]
    /\ UNCHANGED <<library_but_codec, pc, stats, gw>>

NextCodec ==
    \/ CodecSan
    \/ CodecBack
    \/ \E outcome \in Outcomes : CodecOutcome(outcome)

SpecCodec == InitCodec /\ [][NextCodec]_vars

(***************************************************************************)
(* Reading the sink back.                                                  *)
(***************************************************************************)

\* the block payloads on the sink, in the order they were written
Blocks == SelectSeq(writer, IsData)

\* the Games of a payload's Archive, reached from its root
BlockGames(c) ==
    LET root == c.ents[Len(c.ents)]
        block == c.ents[root.block]
        archive_type == c.ents[block.archive]
        archive == c.ents[archive_type.archive]
    IN  [i \in 1..Len(archive.games) |-> c.ents[archive.games[i]]]

RECURSIVE ConcatGames(_)
ConcatGames(bs) ==
    IF bs = <<>> THEN <<>>
    ELSE BlockGames(Head(bs)) \o ConcatGames(Tail(bs))

WrittenGames == ConcatGames(Blocks)

PendingGames == [i \in 1..Len(games_list) |-> builder.ents[games_list[i]]]

\* how many times Move m is serialized in an arena
MoveCount(ents, m) ==
    Cardinality({i \in 1..Len(ents) : ents[i].k = "Move" /\ ents[i].v = m})

BuilderCleared ==
    /\ move_map = EmptyMap
    /\ games_list = <<>>
    /\ builder = NewBuilder

\* every reference of the move lists of games points at a Move of arena ents
MovesInArena(games, ents) ==
    \A i \in 1..Len(games) : \A j \in 1..Len(games[i].moves) :
        /\ games[i].moves[j] \in 1..Len(ents)
        /\ ents[games[i].moves[j]].k = "Move"

\* the references add_move returned since the current block began
IssuedRefs == UNION {issued[m].refs : m \in Moves}

\* how often game g occurs in the sequence gs
Occurrences(gs, g) == Cardinality({i \in 1..Len(gs) : gs[i] = g})

(***************************************************************************)
(* The Block Scanner, which the repository does not hold: it reads four    *)
(* bytes as a length and slices that many bytes, and ends when fewer than  *)
(* four bytes or fewer bytes than the length remain.  A stream is the sink *)
(* cut at a byte position: its first k chunks and `tail` bytes of the next.*)
(***************************************************************************)
Less(a, b) == a.hi < b.hi \/ (a.hi = b.hi /\ a.lo < b.lo)

Pred(a) ==
    IF a.lo > 0 THEN [hi |-> a.hi, lo |-> a.lo - 1]
    ELSE [hi |-> a.hi - 1, lo |-> Limb - 1]

ChunkSize(c) ==
    IF c.t = "len" THEN U(4) ELSE IF c.t = "part" THEN U(c.n) ELSE c.len

\* the byte positions the sink is cut at: each chunk boundary, and inside a
\* chunk after its first byte, before its last and after as many bytes of a
\* payload as its prefix declares
Cuts ==
    {[k |-> Len(writer), tail |-> U(0)]}
    \cup UNION {
        LET c == writer[k + 1]
        IN  {[k |-> k, tail |-> t] :
                t \in {u \in {U(0), U(1), Pred(ChunkSize(c))}
                               \cup (IF c.t = "data"
                                     THEN {from_le_bytes(writer[k].bytes)}
                                     ELSE {}) :
                          Less(u, ChunkSize(c))}}
        : k \in 0..(Len(writer) - 1)}

\* the bytes of chunk i that the stream holds
Available(cut, i) ==
    IF i <= cut.k THEN ChunkSize(writer[i])
    ELSE IF i = cut.k + 1 /\ i <= Len(writer) THEN cut.tail
    ELSE U(0)

\* The scan from the start of chunk i, a length prefix.  It yields a payload
\* whole ("block") or the first bytes of one ("slice"); after a slice it
\* stands inside a payload, and what it reads from there is left out.
RECURSIVE ScanFrom(_, _)
ScanFrom(cut, i) ==
    IF Less(Available(cut, i), U(4)) THEN <<>>
    ELSE LET length == from_le_bytes(writer[i].bytes)
         IN  IF Less(Available(cut, i + 1), length) THEN <<>>
             ELSE IF length = ChunkSize(writer[i + 1])
             THEN <<[t |-> "block", bytes |-> writer[i + 1]]>>
                      \o ScanFrom(cut, i + 2)
             ELSE <<[t |-> "slice", of |-> writer[i + 1], len |-> length]>>

Scan(cut) == ScanFrom(cut, 1)

\* the blocks written that lie completely inside the stream, in order
RECURSIVE CompleteBlocks(_, _)
CompleteBlocks(cut, i) ==
    IF i > cut.k THEN <<>>
    ELSE (IF writer[i].t = "data"
          THEN <<[t |-> "block", bytes |-> writer[i]]>> ELSE <<>>)
             \o CompleteBlocks(cut, i + 1)

(***************************************************************************)
(* The claims.                                                             *)
(***************************************************************************)

\* C1: a call of add_move (directly or from san) with a Move that was
\* already submitted in the current block returns the reference the earlier
\* call returned, adds no entry to move_map and appends nothing to the
\* builder's buffer.
C1_AddMoveIdempotent ==
    [][(/\ last_call'.op \in {"add_move", "san"}
        /\ stats'.calls = stats.calls + 1
        /\ issued[last_call'.arg].n > 0)
       => (/\ last_call'.ret \in issued[last_call'.arg].refs
           /\ Cardinality(issued'[last_call'.arg].refs) = 1
           /\ move_map' = move_map
           /\ builder' = builder)]_vars

C1_Witness ==
    /\ last_call.op = "add_move"
    /\ issued[last_call.arg].n >= 2

\* C2: every block on the sink holds each Move submitted while it was active
\* exactly once and no other Move, however often it was submitted; the same
\* holds of the block being built, where every reference add_move returned
\* points at that one entity.
C2_DedupExactPerBlock ==
    /\ Len(block_moves) = Len(Blocks)
    /\ \A i \in 1..Len(Blocks) : \A m \in Moves :
           MoveCount(Blocks[i].ents, m) = IF block_moves[i][m] > 0 THEN 1 ELSE 0
    /\ \A m \in Moves :
           /\ MoveCount(builder.ents, m) = IF issued[m].n > 0 THEN 1 ELSE 0
           /\ \A r \in issued[m].refs : builder.ents[r] = MoveEntity(m)

\* a Move submitted twice in the first block and again in the second
C2_Witness ==
    /\ Len(Blocks) >= 2
    /\ \E m \in Moves :
           /\ block_moves[1][m] >= 2
           /\ block_moves[2][m] >= 1
           /\ MoveCount(Blocks[1].ents, m) = 1
           /\ MoveCount(Blocks[2].ents, m) = 1

\* C3: with the threshold T >= 1 fixed before the first game and no write
\* failing, right after the first explicit finish_current_block that follows
\* k*T + r games (0 < r < T) the sink holds k + 1 blocks, the first k of T
\* games and the last of r.
C3_Premise ==
    /\ last_call.op = "finish_current_block"
    /\ stats.finishes = 1
    /\ stats.failures = 0
    /\ ~stats.reconfigured
    /\ max_games_per_block >= 1
    /\ Len(added) % max_games_per_block > 0

C3_BlockChunking ==
    C3_Premise =>
        LET T == max_games_per_block
            k == Len(added) \div T
            r == Len(added) % T
        IN  /\ Len(Blocks) = k + 1
            /\ \A i \in 1..k : Len(BlockGames(Blocks[i])) = T
            /\ Len(BlockGames(Blocks[k + 1])) = r

C3_Witness ==
    /\ C3_Premise
    /\ Len(added) \div max_games_per_block >= 1
    /\ Len(Blocks) = 2

\* C4 (as claimed): every payload on the sink is preceded by four bytes that
\* read, little-endian, as the payload's byte length.
C4_LengthPrefixExact ==
    \A i \in 1..Len(writer) :
        writer[i].t = "data" =>
            /\ i > 1
            /\ writer[i - 1].t = "len"
            /\ from_le_bytes(writer[i - 1].bytes) = writer[i].len

\* C5 (as claimed): after a finish_current_block whose write failed, the
\* dedup table, the game list and the arena are cleared.
C5_ClearedAfterFailedWrite ==
    last_call.fin = "Err" => BuilderCleared

\* C6: once the Converter is gone, by its owner letting go of it or by a
\* panic unwinding, drop has run flush; when that flush's writes succeeded no
\* game is left in memory and the blocks on the sink hold every game passed to
\* add_game.
C6_FlushOnEveryExit ==
    pc \in {"dropped", "drop_panicked", "aborted"} =>
        /\ last_call.op = "drop"
        /\ last_call.fin # "none"
        /\ last_call.fin = "Ok" =>
               /\ games_list = <<>>
               /\ WrittenGames = added

\* a panic in san unwinds while a finished game is still in memory
C6_Witness ==
    /\ pc = "dropped"
    /\ stats.panicked
    /\ Blocks # <<>>
    /\ BlockGames(Blocks[Len(Blocks)]) # <<>>

\* C7: after a finish_current_block that succeeded, called explicitly or by
\* add_game at the threshold, the dedup table and the game list are empty
\* and the builder is as Builder::new() left it.
C7_NothingSurvivesFinish ==
    last_call.fin = "Ok" => BuilderCleared

\* a threshold-triggered finish of a block that held a Move
C7_Witness ==
    /\ last_call.op = "add_game"
    /\ last_call.fin = "Ok"
    /\ \E m \in Moves : block_moves[Len(block_moves)][m] > 0
    /\ BuilderCleared

\* C8: the games of the blocks on the sink, block after block, followed by
\* the games still pending, are the games add_game was called with, in call
\* order; after a successful final flush nothing is pending.
C8_InputOrderPreserved ==
    /\ WrittenGames \o PendingGames = added
    /\ last_call.fin = "Ok" => WrittenGames = added

C8_Witness ==
    /\ last_call.op = "finish_current_block"
    /\ last_call.fin = "Ok"
    /\ Len(Blocks) >= 2
    /\ Len(added) >= 3
    /\ added[1] # added[2]
    /\ BlockGames(Blocks[1]) # <<>>
    /\ BlockGames(Blocks[Len(Blocks)]) # <<>>
    /\ WrittenGames = added

\* C9 (as claimed): game_count is the number of next_game calls that
\* returned Ok(true).
C9_GameCountIsGamesRead ==
    pc # "ser" => game_count = stats.ok_true

\* C10: finish_current_block with no game accumulated, when no write fails,
\* returns Ok and adds to the sink exactly a length prefix and a payload
\* whose Archive has no game, the prefix reading as the payload's length.
C10_EmptyBlockWritten ==
    [][(/\ games_list = <<>>
        /\ last_call'.op = "finish_current_block"
        /\ stats'.calls = stats.calls + 1
        /\ stats'.failures = stats.failures)
       => (/\ last_call'.ret = <<"Ok">>
           /\ Len(writer') = Len(writer) + 2
           /\ SubSeq(writer', 1, Len(writer)) = writer
           /\ writer'[Len(writer) + 1].t = "len"
           /\ writer'[Len(writer) + 2].t = "data"
           /\ BlockGames(writer'[Len(writer) + 2]) = <<>>
           /\ from_le_bytes(writer'[Len(writer) + 1].bytes)
                  = writer'[Len(writer) + 2].len)]_vars

C10_Witness ==
    /\ last_call.op = "finish_current_block"
    /\ last_call.fin = "Ok"
    /\ BlockGames(Blocks[Len(Blocks)]) = <<>>
    /\ added = <<>>

\* C11 (as claimed): every game the encoder records on an outcome event has a
\* null start position when its source game gave no FEN tag and the position
\* parsed from the tag when it gave one.
C11_StartPositionRecorded ==
    \A i \in 1..Len(gw.log) :
        gw.log[i].game.start_position = gw.log[i].start

\* C12: the step that delivers a move event that is neither a normal move
\* nor a castle panics: it submits no Move (dedup table and arena are as
\* before), pushes nothing onto the current move list and adds no game; from
\* then on the conversion is over and no game is ever added, so the game that
\* held the move never becomes a Game.
C12_UnsupportedMoveAborts ==
    [][/\ (/\ ~stats.panicked
           /\ stats'.panicked
           /\ stats'.failures = stats.failures)
          => (/\ pc' = "panic"
              /\ move_map' = move_map
              /\ builder' = builder
              /\ issued' = issued
              /\ current_moves' = current_moves
              /\ added' = added)
       /\ stats.panicked
          => (/\ pc \in {"panic", "dropped", "drop_panicked", "aborted"}
              /\ added' = added
              /\ current_moves' = current_moves)]_vars

\* the null move came after a move of the same game; the panic unwound, drop
\* flushed, and the game's move is still only in the move list
C12_Witness ==
    /\ pc = "dropped"
    /\ stats.panicked
    /\ stats.failures = 0
    /\ current_moves # <<>>
    /\ game_refs = current_moves
    /\ added = <<>>

\* C13: the Game that outcome passes to add_game, and the Game then found in
\* the arena, carry WhiteWin for a decisive outcome won by White, BlackWin
\* for one won by Black, Draw for a draw and Unknown for every other outcome;
\* every outcome has a result.
C13_OutcomeTranslationExact ==
    codec.game # None =>
        LET outcome == codec.game[1].outcome
            expected ==
                IF outcome = "DecisiveWhite" THEN "WhiteWin"
                ELSE IF outcome = "DecisiveBlack" THEN "BlackWin"
                ELSE IF outcome = "Draw" THEN "Draw"
                ELSE "Unknown"
        IN  /\ codec.game[1].res.result = expected
            /\ codec.game[1].stored.k = "Game"
            /\ codec.game[1].stored.result = expected

\* a game won by Black, after a move
C13_Witness ==
    /\ codec.game # None
    /\ codec.game[1].outcome = "DecisiveBlack"
    /\ codec.game[1].stored.result = "BlackWin"
    /\ codec.game[1].stored.moves # <<>>

\* C14: the Move built from a castle has castle set to the side of the
\* castle (Kingside for the king side, Queenside for the queen side),
\* moved_piece King and every other field at its default; delivered again in
\* the same block it gets the same reference, one entry of the dedup table
\* and one Move in the arena.  The GameWriter builds the same shape whatever
\* the check flag.
C14_CastleOnlyShape ==
    /\ (codec.made_move # None /\ codec.san.kind = "Castle") =>
           LET castle_side == IF codec.san.side = "KingSide" THEN "Kingside"
                              ELSE "Queenside"
               shape == [moved_piece |-> "King", to |-> "A1",
                         is_capture |-> FALSE, promoted_piece |-> None,
                         castle |-> Some(castle_side),
                         from_file |-> None, from_rank |-> None]
               s == codec.serializer
           IN  /\ codec.made_move[1] = shape
               /\ DOMAIN s.move_map = {shape}
               /\ MoveCount(s.builder.ents, shape) = 1
               /\ \A i \in 1..Len(CodecRefs) :
                      /\ CodecRefs[i] = s.move_map[shape]
                      /\ s.builder.ents[CodecRefs[i]].v = shape
    /\ \A mv \in {CliCastleKing, CliCastleQueen}, is_check \in BOOLEAN :
           GameWriter_made_move(mv, is_check)
               = [moved_piece |-> "King", from |-> "A1", to |-> "A1",
                  promoted_piece |-> None, is_check |-> FALSE,
                  is_capture |-> FALSE,
                  castle |-> Some(IF mv.castling_side = "KingSide"
                                  THEN "Kingside" ELSE "Queenside")]

\* a queen-side castle delivered twice
C14_Witness ==
    /\ codec.san = [kind |-> "Castle", side |-> "QueenSide"]
    /\ codec.made_move # None
    /\ codec.made_move[1].castle = Some("Queenside")
    /\ Len(CodecRefs) = 2
    /\ CodecRefs[1] = CodecRefs[2]

\* C15: the Move the Converter built from a normal move or a castle, read
\* back from the arena by move_ref_to_san, is the notation move it was built
\* from: same role, destination, capture flag, promotion, file hint, rank
\* hint and castle side.  The piece, square, file and rank conversions are
\* inverse to each other in both directions.
C15_MoveRoundTrip ==
    /\ codec.back # None => codec.back[1] = <<"Ok", codec.san>>
    /\ \A role \in Roles : piece_to_role(role_to_piece(role)) = role
    /\ \A piece \in Pieces : role_to_piece(piece_to_role(piece)) = piece
    /\ \A sq \in Squares :
           square_to_shakmaty_square(shakmaty_square_to_square(sq)) = sq
    /\ \A i \in 1..Len(SquareNames) :
           shakmaty_square_to_square(square_to_shakmaty_square(SquareNames[i]))
               = SquareNames[i]
    /\ \A f \in 0..7 :
           /\ file_to_shakmaty_file(shakmaty_file_to_file(f)) = f
           /\ shakmaty_file_to_file(file_to_shakmaty_file(FileNames[f + 1]))
                  = FileNames[f + 1]
           /\ rank_to_shakmaty_rank(shakmaty_rank_to_rank(f)) = f
           /\ shakmaty_rank_to_rank(rank_to_shakmaty_rank(RankNames[f + 1]))
                  = RankNames[f + 1]
    /\ Cardinality({role_to_piece(role) : role \in Roles}) = 6
    /\ Cardinality({SquareNames[i] : i \in 1..64}) = 64

\* a capturing promotion with both hints came back as it went in
C15_Witness ==
    /\ codec.back # None
    /\ codec.san.kind = "Normal"
    /\ codec.san.promotion = Some(5)
    /\ codec.san.file = Some(3)
    /\ codec.san.rank = Some(6)
    /\ codec.san.capture
    /\ codec.back[1][2] = codec.san

\* C16 (as claimed): on a sink that never failed, the scan of the whole
\* stream yields the payloads written, in order, and the scan of the stream
\* cut at any byte position yields the payloads that lie completely before
\* the cut and nothing else.
C16_ScanYieldsWrittenBlocks ==
    stats.failures = 0 =>
        \A cut \in Cuts : Scan(cut) = CompleteBlocks(cut, 1)

\* C17 (as claimed): the GameWriter finalizes the block as soon as its game
\* list holds 500,000 games, so between callbacks fewer than 500,000 games
\* are pending, no block it wrote holds more than 500,000 games, and every
\* block cut by add_game holds exactly the 500,000 games at which the library
\* Serializer cuts with its default threshold.
C17_CliBlockBoundary ==
    /\ pc \in {"cli_idle", "cli_tags", "cli_movetext", "cli_done"} =>
           GameWriter_games_len(gw) < CLI_MAX_GAMES_PER_BLOCK
    /\ \A i \in 1..Len(CliBlocks) :
           /\ CliBlockGameCount(CliBlocks[i]) <= CLI_MAX_GAMES_PER_BLOCK
           /\ (i < Len(CliBlocks) \/ pc # "cli_done") =>
                  CliBlockGameCount(CliBlocks[i]) = MAX_GAMES_PER_BLOCK

\* C18 (as claimed): when a game begins the current move list is empty, and
\* the Game an outcome event passes to add_game lists exactly the references
\* add_move returned to the move events of that game, in play order.
C18_MoveListsIsolated ==
    [][/\ (last_call'.op = "begin_movetext"
           /\ stats'.calls = stats.calls + 1)
          => current_moves' = <<>>
       /\ (last_call'.op \in {"outcome", "outcome_panic"}
           /\ stats'.calls = stats.calls + 1)
          => added'[Len(added')].moves = game_refs]_vars

\* C19 (as claimed): in every block on the sink and in the block being
\* built, every reference in a Game's move list points at a Move of that
\* block's arena, and the pending Games hold only references add_move
\* returned since the last block was finalized.
C19_BlocksSelfContained ==
    /\ \A i \in 1..Len(Blocks) :
           MovesInArena(BlockGames(Blocks[i]), Blocks[i].ents)
    /\ MovesInArena(PendingGames, builder.ents)
    /\ \A i \in 1..Len(PendingGames) :
           \A j \in 1..Len(PendingGames[i].moves) :
               PendingGames[i].moves[j] \in IssuedRefs

\* C20: on a sink that never failed, the games in the blocks written and the
\* pending games are together as many as the add_game calls made, and each
\* game occurs among them as often as it was added: none is dropped and none
\* is in two blocks.
C20_GameConservation ==
    stats.failures = 0 =>
        /\ Len(WrittenGames) + Len(games_list) = Len(added)
        /\ \A i \in 1..Len(added) :
               Occurrences(WrittenGames, added[i])
                   + Occurrences(PendingGames, added[i])
                   = Occurrences(added, added[i])

\* two blocks written at the threshold and a game pending after them
C20_Witness ==
    /\ stats.failures = 0
    /\ Len(Blocks) >= 2
    /\ BlockGames(Blocks[1]) # <<>>
    /\ BlockGames(Blocks[2]) # <<>>
    /\ games_list # <<>>
    /\ Len(added) >= 3

\* C21 (as claimed, for thresholds of at least 1 on a sink that never
\* failed): whenever a call writes a block, by add_game at the threshold or
\* by finish_current_block, the block holds at most as many games as
\* max_games_per_block is at that moment, whatever calls of
\* set_max_games_per_block came before.
C21_BlockSizeBound ==
    [][(/\ Len(writer') > Len(writer)
        /\ writer'[Len(writer')].t = "data"
        /\ stats'.failures = 0
        /\ max_games_per_block' >= 1)
       => Len(BlockGames(writer'[Len(writer')])) <= max_games_per_block']_vars

\* C22 (as claimed): every game the GameWriter records lists exactly the
\* offsets add_move pushed for that game's own move events; the moves
\* accumulated for an earlier game that was abandoned (a move did not
\* resolve, or the FEN tag was invalid) are in no later game's move list.
C22_AbandonedGameLeavesNothing ==
    \A i \in 1..Len(gw.log) : gw.log[i].game.moves = gw.log[i].own

====
